---- MODULE Spec2Model ----
(***************************************************************************)
(* Model of src/pwr.rs: the PWR builder (constrain, supply setters, vos0.. *)
(* vos3, backup_regulator), Pwr::freeze with its register writes and busy  *)
(* polls, Pwr::verify_supply_configuration, voltage_scaling_transition and *)
(* PowerConfiguration::vos / backup, run against a register file whose     *)
(* ready flags are set by the hardware and whose CR3 lower byte is         *)
(* write-once per power-on reset.                                          *)
(***************************************************************************)
EXTENDS Naturals, Sequences, FiniteSets

VARIABLES
    cfg,            \* build-time features: family, smps, revision_v
    pwr,            \* struct Pwr: supply_configuration, target_vos, backup_regulator
    pc,             \* position of the control thread
    vos,            \* freeze's local `vos`
    vst,            \* voltage_scaling_transition's argument and return position
    rb,             \* PWR register block
    cr3_locked,     \* hardware latch: CR3 lower byte already written since POR
    sys,            \* RCC.APB4ENR.SYSCFGEN and SYSCFG.PWRCR.ODEN
    log,            \* register accesses of the running freeze, in program order
    spins,          \* iterations of the current poll loop that found the flag clear
    panic,          \* why freeze aborted
    pwrcfg,         \* struct PowerConfiguration returned by freeze
    ret,            \* last values returned by PowerConfiguration::backup / vos
    calls,          \* number of backup() calls on the returned PowerConfiguration
    tier_selected,  \* whether vos0..vos3 was called on the builder
    por,            \* the package's reset value of the CR3 lower byte
    boots,          \* resets taken so far
    fixed           \* supply selection accepted by the hardware in this power cycle

vars == <<cfg, pwr, pc, vos, vst, rb, cr3_locked, sys, log, spins, panic,
          pwrcfg, ret, calls, tier_selected, por, boots, fixed>>

\* ---------------------------------------------------------------- bounds

MaxSpins == 1
MaxCalls == 2
MaxBoots == 1

\* ------------------------------------------------------------ data types

VoltageScale == {"Scale0", "Scale1", "Scale2", "Scale3"}

SupplyConfiguration ==
    {"Default", "LDOSupply", "DirectSMPS", "SMPSFeedsIntoLDO1V8",
     "SMPSFeedsIntoLDO2V5", "Bypass"}

Families == {"rm0433", "rm0399", "rm0455", "rm0468"}

\* The feature combinations the crate builds: rm0433 has no SMPS fields, and
\* the revision gate is only used together with rm0433, rm0399 or rm0468.
Variants ==
    {v \in [family : Families, smps : BOOLEAN, revision_v : BOOLEAN] :
        /\ (v.family = "rm0433" => ~v.smps)
        /\ (v.revision_v => v.family \in {"rm0433", "rm0399", "rm0468"})}

\* vos0() exists
\* vos0 without the revision gate.
HasVos0_NoGate(c) == c.family \in {"rm0433", "rm0399", "rm0468"}

HasVos0(c) == c.revision_v /\ c.family \in {"rm0433", "rm0399", "rm0468"}

\* the overdrive block of freeze is compiled
HasOverdrive(c) == c.revision_v /\ c.family \in {"rm0433", "rm0399"}

\* the second-transition block of freeze is compiled
HasSecondTransition(c) == c.revision_v /\ c.family = "rm0468"

\* The match arms of voltage_scaling_transition with no bit pattern.
VosUnimplemented(family, scale) ==
    family \in {"rm0433", "rm0399"} /\ scale = "Scale0"

\* The tier-to-bit-pattern tables of voltage_scaling_transition.
VosBits(family, scale) ==
    CASE family \in {"rm0433", "rm0399"} ->
            (CASE scale = "Scale3" -> 1
               [] scale = "Scale2" -> 2
               [] scale = "Scale1" -> 3
               [] OTHER -> 0)
      [] family = "rm0455" ->
            (CASE scale = "Scale3" -> 0
               [] scale = "Scale2" -> 1
               [] scale = "Scale1" -> 2
               [] OTHER -> 3)
      [] OTHER ->
            (CASE scale = "Scale0" -> 0
               [] scale = "Scale3" -> 1
               [] scale = "Scale2" -> 2
               [] OTHER -> 3)

\* ------------------------------------------------------- register file

Bit == {0, 1}
SdLevels == 0 .. 3

\* The lower byte of CR3 as the fields the code names.  Bit 2 is SCUEN on
\* parts without the converter and SDEN / SMPSEN on parts with it.
LowerBytes(c) ==
    IF c.smps
    THEN [bypass : Bit, ldoen : Bit, scuen : {0}, sden : Bit, sdlevel : SdLevels]
    ELSE [bypass : Bit, ldoen : Bit, scuen : Bit, sden : {0}, sdlevel : {0}]

LowerOf(r) ==
    [bypass |-> r.bypass, ldoen |-> r.ldoen, scuen |-> r.scuen,
     sden |-> r.sden, sdlevel |-> r.sdlevel]

\* The lower byte as the number on the bus.
LowerByte(r) ==
    r.bypass + 2 * r.ldoen + 4 * (r.scuen + r.sden) + 16 * r.sdlevel

\* Register values after a reset that leaves the CR3 lower byte at `low`:
\* VOS and ACTVOS at Scale3, VOSRDY set, the other flags clear.
ResetRb(c, low) ==
    [bypass |-> low.bypass, ldoen |-> low.ldoen, scuen |-> low.scuen,
     sden |-> low.sden, sdlevel |-> low.sdlevel,
     vos |-> VosBits(c.family, "Scale3"), vosrdy |-> 1,
     actvos |-> VosBits(c.family, "Scale3"), actvosrdy |-> 0,
     dbp_w |-> 0, dbp |-> 0, bren |-> 0, brrdy |-> 0]

Ev(op, reg, val) == [op |-> op, reg |-> reg, val |-> val]

\* ------------------------------------------------------------- builder

\* constrain with the wrong default tier.
constrain_Scale3 ==
    [supply_configuration |-> "Default", target_vos |-> "Scale3",
     backup_regulator |-> FALSE]

\* PwrExt::constrain
constrain ==
    [supply_configuration |-> "Default", target_vos |-> "Scale1",
     backup_regulator |-> FALSE]

NoResult == [vos |-> "none", backup |-> "none"]
NoRet == [backup |-> "none", vos |-> "none"]
NoCall == [new_scale |-> "none", ret |-> "none"]

Boot(c, low, locked) ==
    /\ cfg = c
    /\ pwr = constrain
    /\ pc = "builder"
    /\ vos = "none"
    /\ vst = NoCall
    /\ rb = ResetRb(c, low)
    /\ cr3_locked = locked
    /\ sys = [syscfgen |-> 0, oden |-> 0]
    /\ log = <<>>
    /\ spins = 0
    /\ panic = "none"
    /\ pwrcfg = NoResult
    /\ ret = NoRet
    /\ calls = 0
    /\ tier_selected = FALSE

\* After constrain, on any build, with any CR3 lower byte and either state of
\* the write-once latch: freeze cannot know what ran since the last POR.
Init ==
    /\ \E c \in Variants : \E low \in LowerBytes(c) : \E locked \in BOOLEAN :
          Boot(c, low, locked) /\ por = low
    /\ boots = 0
    /\ fixed = "none"

BuilderFrame ==
    UNCHANGED <<cfg, pc, vos, vst, rb, cr3_locked, sys, log, spins, panic,
                pwrcfg, ret, calls, por, boots, fixed>>

\* A supply setter that also puts the target tier back to the default.
SetSupply_ResetsTarget(config) ==
    /\ pc = "builder"
    /\ cfg.smps
    /\ pwr' = [pwr EXCEPT !.supply_configuration = config,
                          !.target_vos = "Scale1"]
    /\ UNCHANGED tier_selected
    /\ BuilderFrame

\* supply_configuration_setter!
SetSupply(config) ==
    /\ pc = "builder"
    /\ cfg.smps
    /\ pwr' = [pwr EXCEPT !.supply_configuration = config]
    /\ UNCHANGED tier_selected
    /\ BuilderFrame

ldo == SetSupply("LDOSupply")
smps == SetSupply("DirectSMPS")
bypass == SetSupply("Bypass")
smps_1v8_feeds_ldo == SetSupply("SMPSFeedsIntoLDO1V8")
smps_2v5_feeds_ldo == SetSupply("SMPSFeedsIntoLDO2V5")

SetTarget(scale) ==
    /\ pc = "builder"
    /\ pwr' = [pwr EXCEPT !.target_vos = scale]
    /\ tier_selected' = TRUE
    /\ BuilderFrame

vos0 == HasVos0(cfg) /\ SetTarget("Scale0")
vos1 == SetTarget("Scale1")
vos2 == SetTarget("Scale2")
vos3 == SetTarget("Scale3")

backup_regulator ==
    /\ pc = "builder"
    /\ pwr' = [pwr EXCEPT !.backup_regulator = TRUE]
    /\ UNCHANGED tier_selected
    /\ BuilderFrame

\* -------------------------------------------------------------- freeze

\* The closure without `.bypass().clear_bit()`.
NoSmpsWrite_KeepsBypass(r) ==
    [r EXCEPT !.scuen = 1, !.ldoen = 1]

\* The closure handed to cr3.modify on parts without the converter.
NoSmpsWrite(r) ==
    [r EXCEPT !.scuen = 1, !.ldoen = 1, !.bypass = 0]

\* The closure with a Default arm that enables the regulator.
SupplyWrite_DefaultSetsLdo(config, r) ==
    CASE config = "LDOSupply" -> [r EXCEPT !.sden = 0, !.ldoen = 1]
      [] config = "DirectSMPS" -> [r EXCEPT !.sden = 1, !.ldoen = 0]
      [] config = "SMPSFeedsIntoLDO1V8" ->
            [r EXCEPT !.sden = 1, !.ldoen = 1, !.sdlevel = 1]
      [] config = "SMPSFeedsIntoLDO2V5" ->
            [r EXCEPT !.sden = 1, !.ldoen = 1, !.sdlevel = 2]
      [] config = "Bypass" -> [r EXCEPT !.sden = 0, !.ldoen = 0, !.bypass = 1]
      [] OTHER -> [r EXCEPT !.ldoen = 1]

\* The closure handed to cr3.modify on parts with the converter: the fields
\* each selection sets, the others as read.
SupplyWrite(config, r) ==
    CASE config = "LDOSupply" -> [r EXCEPT !.sden = 0, !.ldoen = 1]
      [] config = "DirectSMPS" -> [r EXCEPT !.sden = 1, !.ldoen = 0]
      [] config = "SMPSFeedsIntoLDO1V8" ->
            [r EXCEPT !.sden = 1, !.ldoen = 1, !.sdlevel = 1]
      [] config = "SMPSFeedsIntoLDO2V5" ->
            [r EXCEPT !.sden = 1, !.ldoen = 1, !.sdlevel = 2]
      [] config = "Bypass" -> [r EXCEPT !.sden = 0, !.ldoen = 0, !.bypass = 1]
      [] OTHER -> r

\* The asserts of verify_supply_configuration on the value CR3 reads as.
VerifyPasses(config, r) ==
    CASE config = "LDOSupply" -> r.sden = 0 /\ r.ldoen = 1
      [] config = "DirectSMPS" -> r.sden = 1 /\ r.ldoen = 0
      [] config = "SMPSFeedsIntoLDO1V8" ->
            r.sden = 1 /\ r.ldoen = 0 /\ r.sdlevel = 1
      [] config = "SMPSFeedsIntoLDO2V5" ->
            r.sden = 1 /\ r.ldoen = 0 /\ r.sdlevel = 2
      [] config = "Bypass" -> r.sden = 0 /\ r.ldoen = 0 /\ r.bypass = 1
      [] OTHER -> TRUE

\* Whether verify_supply_configuration reads CR3 at all.
VerifyReads(config) == config # "Default"

\* cr3.modify: read the register, apply the closure, write the result back.
\* The hardware takes the first write of the lower byte after a POR and
\* ignores the later ones.
freeze_cr3 ==
    /\ pc = "builder"
    /\ LET w == IF cfg.smps THEN SupplyWrite(pwr.supply_configuration, rb)
                ELSE NoSmpsWrite(rb)
       IN /\ rb' = IF cr3_locked THEN rb ELSE w
          /\ log' = <<Ev("modify", "cr3", LowerByte(w))>>
    /\ cr3_locked' = TRUE
    /\ fixed' = IF ~cr3_locked /\ cfg.smps
                   /\ pwr.supply_configuration # "Default"
                THEN pwr.supply_configuration ELSE fixed
    /\ pc' = IF cfg.smps THEN "verify" ELSE "poll_actvosrdy"
    /\ UNCHANGED <<cfg, pwr, vos, vst, sys, spins, panic, pwrcfg, ret, calls,
                   tier_selected, por, boots>>

verify_supply_configuration ==
    /\ pc = "verify"
    /\ log' = IF VerifyReads(pwr.supply_configuration)
              THEN Append(log, Ev("read", "cr3", LowerByte(rb))) ELSE log
    /\ IF VerifyPasses(pwr.supply_configuration, rb)
       THEN pc' = "poll_actvosrdy" /\ panic' = panic
       ELSE pc' = "panicked" /\ panic' = "verify"
    /\ UNCHANGED <<cfg, pwr, vos, vst, rb, cr3_locked, sys, spins, pwrcfg,
                   ret, calls, tier_selected, por, boots, fixed>>

\* One iteration of `while <flag is clear> {}` at position `here`: leave the
\* loop when the condition holds, spin otherwise.
PollIter(here, ready, next, reg) ==
    /\ pc = here
    /\ IF ready
       THEN /\ pc' = next
            /\ spins' = 0
            /\ log' = Append(log, Ev("poll", reg, 1))
       ELSE /\ spins < MaxSpins
            /\ pc' = pc
            /\ spins' = spins + 1
            /\ log' = log

\* The VOSRDY loop with its test inverted (bit_is_set for bit_is_clear).
VosRdySet_Inverted(r) == r.vosrdy = 0

\* The DBP loop that never waits.
DbpSet_Always(r) == TRUE

\* The BRRDY loop that never waits.
BrRdySet_Always(r) == TRUE

\* The loop conditions, as the value that ends the loop.
ActVosRdySet(r) == r.actvosrdy = 1
VosRdySet(r) == r.vosrdy = 1
ActVosEqual(r) == r.vos = r.actvos
DbpSet(r) == r.dbp = 1
BrRdySet(r) == r.brrdy = 1

\* The first transition without the Scale0 => Scale1 arm.
FirstHop_Direct(target) == target

\* let mut vos = match self.target_vos { Scale0 => Scale1, x => x }
FirstHop(target) == IF target = "Scale0" THEN "Scale1" ELSE target

\* freeze without either Scale0 block.
AfterFirstHop_SkipsScale0(c, target) == "dbp_write"

\* freeze whose overdrive block does not test the target.
AfterFirstHop_IgnoresTarget(c, target) ==
    IF HasOverdrive(c) THEN "od_syscfgen"
    ELSE IF target = "Scale0" /\ HasSecondTransition(c) THEN "second_hop"
    ELSE "dbp_write"

\* Where freeze continues after its first voltage_scaling_transition.
AfterFirstHop(c, target) ==
    IF target = "Scale0" /\ HasOverdrive(c) THEN "od_syscfgen"
    ELSE IF target = "Scale0" /\ HasSecondTransition(c) THEN "second_hop"
    ELSE "dbp_write"

\* while csr1.actvosrdy is clear {}; then the first transition is called.
poll_actvosrdy ==
    /\ PollIter("poll_actvosrdy", ActVosRdySet(rb), "vst_write", "actvosrdy")
    /\ IF ActVosRdySet(rb)
       THEN /\ vos' = FirstHop(pwr.target_vos)
            /\ vst' = [new_scale |-> FirstHop(pwr.target_vos),
                       ret |-> AfterFirstHop(cfg, pwr.target_vos)]
       ELSE UNCHANGED <<vos, vst>>
    /\ UNCHANGED <<cfg, pwr, rb, cr3_locked, sys, panic, pwrcfg, ret, calls,
                   tier_selected, por, boots, fixed>>

\* voltage_scaling_transition: the D3CR / SRDCR write.  A new VOS request
\* clears VOSRDY and ACTVOSRDY until the regulator has settled.
vst_write ==
    /\ pc = "vst_write"
    /\ IF VosUnimplemented(cfg.family, vst.new_scale)
       THEN /\ pc' = "panicked"
            /\ panic' = "unimplemented"
            /\ UNCHANGED <<rb, log>>
       ELSE /\ rb' = [rb EXCEPT !.vos = VosBits(cfg.family, vst.new_scale),
                                !.vosrdy = 0, !.actvosrdy = 0]
            /\ log' = Append(log, Ev("write", "d3cr",
                                     VosBits(cfg.family, vst.new_scale)))
            /\ pc' = "vst_poll"
            /\ panic' = panic
    /\ UNCHANGED <<cfg, pwr, vos, vst, cr3_locked, sys, spins, pwrcfg, ret,
                   calls, tier_selected, por, boots, fixed>>

\* voltage_scaling_transition: while d3cr.vosrdy is clear {}; return.
vst_poll ==
    /\ PollIter("vst_poll", VosRdySet(rb), vst.ret, "vosrdy")
    /\ UNCHANGED <<cfg, pwr, vos, vst, rb, cr3_locked, sys, panic, pwrcfg,
                   ret, calls, tier_selected, por, boots, fixed>>

\* Overdrive block: RCC.APB4ENR.SYSCFGEN.
od_syscfgen ==
    /\ pc = "od_syscfgen"
    /\ sys' = [sys EXCEPT !.syscfgen = 1]
    /\ log' = Append(log, Ev("modify", "apb4enr", 1))
    /\ pc' = "od_oden"
    /\ UNCHANGED <<cfg, pwr, vos, vst, rb, cr3_locked, spins, panic, pwrcfg,
                   ret, calls, tier_selected, por, boots, fixed>>

\* Overdrive block: SYSCFG.PWRCR.ODEN; the regulator starts to move.
od_oden ==
    /\ pc = "od_oden"
    /\ sys' = [sys EXCEPT !.oden = 1]
    /\ rb' = [rb EXCEPT !.vosrdy = 0]
    /\ log' = Append(log, Ev("modify", "pwrcr", 1))
    /\ pc' = "od_poll"
    /\ UNCHANGED <<cfg, pwr, vos, vst, cr3_locked, spins, panic, pwrcfg, ret,
                   calls, tier_selected, por, boots, fixed>>

\* Overdrive block: while d3cr.vosrdy is clear {}; vos = Scale0.
od_poll ==
    /\ PollIter("od_poll", VosRdySet(rb), "dbp_write", "vosrdy")
    /\ vos' = IF VosRdySet(rb) THEN "Scale0" ELSE vos
    /\ UNCHANGED <<cfg, pwr, vst, rb, cr3_locked, sys, panic, pwrcfg, ret,
                   calls, tier_selected, por, boots, fixed>>

\* The rm0468 block without its two waits on CSR1.
second_hop_SkipsConfirm ==
    /\ pc = "second_hop"
    /\ vos' = "Scale0"
    /\ vst' = [new_scale |-> "Scale0", ret |-> "dbp_write"]
    /\ pc' = "vst_write"
    /\ UNCHANGED <<cfg, pwr, rb, cr3_locked, sys, log, spins, panic, pwrcfg,
                   ret, calls, tier_selected, por, boots, fixed>>

\* rm0468 block: vos = Scale0; voltage_scaling_transition(vos) is called.
second_hop ==
    /\ pc = "second_hop"
    /\ vos' = "Scale0"
    /\ vst' = [new_scale |-> "Scale0", ret |-> "poll_actvos_eq"]
    /\ pc' = "vst_write"
    /\ UNCHANGED <<cfg, pwr, rb, cr3_locked, sys, log, spins, panic, pwrcfg,
                   ret, calls, tier_selected, por, boots, fixed>>

\* rm0468 block: while d3cr.vos != csr1.actvos {}
poll_actvos_eq ==
    /\ PollIter("poll_actvos_eq", ActVosEqual(rb), "poll_actvosrdy2", "actvos")
    /\ UNCHANGED <<cfg, pwr, vos, vst, rb, cr3_locked, sys, panic, pwrcfg,
                   ret, calls, tier_selected, por, boots, fixed>>

\* rm0468 block: while csr1.actvosrdy is clear {}
poll_actvosrdy2 ==
    /\ PollIter("poll_actvosrdy2", ActVosRdySet(rb), "dbp_write", "actvosrdy")
    /\ UNCHANGED <<cfg, pwr, vos, vst, rb, cr3_locked, sys, panic, pwrcfg,
                   ret, calls, tier_selected, por, boots, fixed>>

\* cr1.modify(dbp set)
dbp_write ==
    /\ pc = "dbp_write"
    /\ rb' = [rb EXCEPT !.dbp_w = 1]
    /\ log' = Append(log, Ev("modify", "cr1", 1))
    /\ pc' = "poll_dbp"
    /\ UNCHANGED <<cfg, pwr, vos, vst, cr3_locked, sys, spins, panic, pwrcfg,
                   ret, calls, tier_selected, por, boots, fixed>>

\* while cr1.dbp is clear {}; if self.backup_regulator
poll_dbp ==
    /\ PollIter("poll_dbp", DbpSet(rb),
                IF pwr.backup_regulator THEN "bren_write" ELSE "result", "dbp")
    /\ UNCHANGED <<cfg, pwr, vos, vst, rb, cr3_locked, sys, panic, pwrcfg,
                   ret, calls, tier_selected, por, boots, fixed>>

\* cr2.modify(bren set)
bren_write ==
    /\ pc = "bren_write"
    /\ rb' = [rb EXCEPT !.bren = 1]
    /\ log' = Append(log, Ev("modify", "cr2", 1))
    /\ pc' = "poll_brrdy"
    /\ UNCHANGED <<cfg, pwr, vos, vst, cr3_locked, sys, spins, panic, pwrcfg,
                   ret, calls, tier_selected, por, boots, fixed>>

\* while cr2.brrdy is clear {}
poll_brrdy ==
    /\ PollIter("poll_brrdy", BrRdySet(rb), "result", "brrdy")
    /\ UNCHANGED <<cfg, pwr, vos, vst, rb, cr3_locked, sys, panic, pwrcfg,
                   ret, calls, tier_selected, por, boots, fixed>>

\* BackupREC::new_singleton(self.backup_regulator); PowerConfiguration { .. }
freeze_result ==
    /\ pc = "result"
    /\ log' = Append(log, Ev("new_singleton", "backup",
                             IF pwr.backup_regulator THEN 1 ELSE 0))
    /\ pwrcfg' = [vos |-> vos, backup |-> "Some"]
    /\ pc' = "done"
    /\ UNCHANGED <<cfg, pwr, vos, vst, rb, cr3_locked, sys, spins, panic, ret,
                   calls, tier_selected, por, boots, fixed>>

\* ------------------------------------------------- PowerConfiguration

\* A backup() that clones the handle instead of taking it.
Take_Clone(opt) == [value |-> opt, left |-> opt]

\* self.backup.take()
Take(opt) == [value |-> opt, left |-> "None"]

PowerConfiguration_backup ==
    /\ pc = "done"
    /\ calls < MaxCalls
    /\ ret' = [ret EXCEPT !.backup = Take(pwrcfg.backup).value]
    /\ pwrcfg' = [pwrcfg EXCEPT !.backup = Take(pwrcfg.backup).left]
    /\ calls' = calls + 1
    /\ UNCHANGED <<cfg, pwr, pc, vos, vst, rb, cr3_locked, sys, log, spins,
                   panic, tier_selected, por, boots, fixed>>

PowerConfiguration_vos ==
    /\ pc = "done"
    /\ ret' = [ret EXCEPT !.vos = pwrcfg.vos]
    /\ UNCHANGED <<cfg, pwr, pc, vos, vst, rb, cr3_locked, sys, log, spins,
                   panic, pwrcfg, calls, tier_selected, por, boots, fixed>>

\* ------------------------------------------------------------ hardware

HwFrame ==
    UNCHANGED <<cfg, pwr, pc, vos, vst, cr3_locked, sys, log, spins, panic,
                pwrcfg, ret, calls, tier_selected, por, boots, fixed>>

\* The regulator reaches the level D3CR.VOS (and ODEN) asks for.
HwVosRdy ==
    /\ rb.vosrdy = 0
    /\ rb' = [rb EXCEPT !.vosrdy = 1]
    /\ HwFrame

\* CSR1.ACTVOS follows D3CR.VOS once the level is reached.
HwActVos ==
    /\ rb.vosrdy = 1
    /\ rb.actvos # rb.vos
    /\ rb' = [rb EXCEPT !.actvos = rb.vos]
    /\ HwFrame

\* CSR1.ACTVOSRDY: the supply is valid at the level in use.
HwActVosRdy ==
    /\ rb.actvosrdy = 0
    /\ rb.actvos = rb.vos
    /\ rb' = [rb EXCEPT !.actvosrdy = 1]
    /\ HwFrame

\* CR1.DBP reads back set some time after it was written.
HwDbp ==
    /\ rb.dbp_w = 1
    /\ rb.dbp = 0
    /\ rb' = [rb EXCEPT !.dbp = 1]
    /\ HwFrame

\* CR2.BRRDY follows CR2.BREN.
HwBrRdy ==
    /\ rb.bren = 1
    /\ rb.brrdy = 0
    /\ rb' = [rb EXCEPT !.brrdy = 1]
    /\ HwFrame

\* ---------------------------------------------------------- next state

Builder ==
    \/ ldo
    \/ smps
    \/ bypass
    \/ smps_1v8_feeds_ldo
    \/ smps_2v5_feeds_ldo
    \/ vos0
    \/ vos1
    \/ vos2
    \/ vos3
    \/ backup_regulator

Freeze ==
    \/ freeze_cr3
    \/ verify_supply_configuration
    \/ poll_actvosrdy
    \/ vst_write
    \/ vst_poll
    \/ od_syscfgen
    \/ od_oden
    \/ od_poll
    \/ second_hop
    \/ poll_actvos_eq
    \/ poll_actvosrdy2
    \/ dbp_write
    \/ poll_dbp
    \/ bren_write
    \/ poll_brrdy
    \/ freeze_result

Hardware ==
    \/ HwVosRdy
    \/ HwActVos
    \/ HwActVosRdy
    \/ HwDbp
    \/ HwBrRdy

Next ==
    \/ Builder
    \/ Freeze
    \/ PowerConfiguration_backup
    \/ PowerConfiguration_vos
    \/ Hardware

Spec == Init /\ [][Next]_vars

\* --------------------------------------------------------------- resets

\* A reset that is not a power-on reset, after freeze has returned or
\* panicked: the program starts again from constrain; the CR3 lower byte and
\* its write-once latch keep their state.
Reboot(low, locked) ==
    /\ pc \in {"done", "panicked"}
    /\ boots < MaxBoots
    /\ boots' = boots + 1
    /\ pwr' = constrain
    /\ pc' = "builder"
    /\ vos' = "none"
    /\ vst' = NoCall
    /\ rb' = ResetRb(cfg, low)
    /\ cr3_locked' = locked
    /\ sys' = [syscfgen |-> 0, oden |-> 0]
    /\ log' = <<>>
    /\ spins' = 0
    /\ panic' = "none"
    /\ pwrcfg' = NoResult
    /\ ret' = NoRet
    /\ calls' = 0
    /\ tier_selected' = FALSE
    /\ UNCHANGED <<cfg, por>>

SystemReset ==
    /\ Reboot(LowerOf(rb), cr3_locked)
    /\ UNCHANGED fixed

\* Power-on reset: the CR3 lower byte is back at the package's reset value and
\* can be written once again.
PowerOnReset ==
    /\ Reboot(por, FALSE)
    /\ fixed' = "none"

\* A converter-integrated part right after a power-on reset.
InitPOR ==
    /\ \E c \in Variants : \E low \in LowerBytes(c) :
          c.smps /\ Boot(c, low, FALSE) /\ por = low
    /\ boots = 0
    /\ fixed = "none"

NextPOR ==
    \/ Next
    \/ SystemReset
    \/ PowerOnReset

SpecPOR == InitPOR /\ [][NextPOR]_vars

\* ------------------------------------------------------------- progress

\* The processor keeps executing freeze, and the regulator, the backup domain
\* and the backup regulator each complete what was asked of them.
Fairness ==
    /\ WF_vars(Freeze)
    /\ WF_vars(HwVosRdy)
    /\ WF_vars(HwActVos)
    /\ WF_vars(HwActVosRdy)
    /\ WF_vars(HwDbp)
    /\ WF_vars(HwBrRdy)

SpecLive == Init /\ [][Next]_vars /\ Fairness

\* ---------------------------------------------------------------- claims

\* The CR3 lower byte reads as the closure of freeze wrote it.
ReflectsWrite ==
    LowerOf(rb) =
        LowerOf(IF cfg.smps THEN SupplyWrite(pwr.supply_configuration, rb)
                ELSE NoSmpsWrite(rb))

Started == pc # "builder"

LogHas(e) == \E i \in DOMAIN log : log[i] = e

\* C1: against a register file that reflects the CR3 write, freeze does not
\* abort, the result's vos() is the requested tier, and a Scale0 result comes
\* only after the Scale1 hop and the overdrive / second-transition step.
C1_FreezeReachesRequestedTier ==
    /\ (Started /\ ReflectsWrite => pc # "panicked")
    /\ (pc = "done" => pwrcfg.vos = pwr.target_vos)
    /\ (pc = "done" /\ pwrcfg.vos = "Scale0" =>
           /\ LogHas(Ev("write", "d3cr", 3))
           /\ \/ LogHas(Ev("modify", "pwrcr", 1))
              \/ LogHas(Ev("poll", "actvos", 1)))

\* C2: on converter-integrated builds, with a non-default selection, a CR3
\* readback that differs from the written bits stops freeze at the
\* verification: it panics there, with no VOS write, no overdrive, no DBP or
\* BREN write and no result.
C2_MismatchAborts ==
    (cfg.smps /\ pwr.supply_configuration # "Default" /\ Started
        /\ ~ReflectsWrite) =>
        /\ pc \in {"verify", "panicked"}
        /\ \A i \in DOMAIN log : log[i].reg = "cr3"
        /\ sys.oden = 0 /\ rb.dbp_w = 0 /\ rb.bren = 0
        /\ pwrcfg = NoResult

\* C3: once the hardware has taken one supply selection in this power cycle,
\* a freeze that asks for another non-default selection panics at the
\* verification, and a freeze whose selection is the one the hardware took
\* (the first after a power-on reset) is accepted.
C3_WriteOncePerPowerCycle ==
    /\ (cfg.smps /\ fixed # "none" /\ Started
           /\ pwr.supply_configuration \notin {"Default", fixed} =>
           pc \in {"verify", "panicked"})
    /\ (cfg.smps /\ fixed # "none" /\ pwr.supply_configuration = fixed =>
           pc # "panicked")

\* C4 as stated: with the Default selection freeze neither reads nor writes
\* the CR3 lower byte.
C4_DefaultNeverTouchesCr3 ==
    (cfg.smps /\ pwr.supply_configuration = "Default") =>
        \A i \in DOMAIN log : log[i].reg # "cr3"

\* C4 amended: with the Default selection freeze's only access to CR3 is the
\* read-modify-write that writes the lower byte back as read; the lower byte
\* keeps its value, the verification reads nothing and never aborts, and the
\* result's vos() is the target whatever the lower byte holds.
C4_DefaultKeepsLowerByte ==
    /\ [](cfg.smps /\ pwr.supply_configuration = "Default" /\ Started =>
            /\ log[1] = Ev("modify", "cr3", LowerByte(rb))
            /\ \A i \in DOMAIN log : i > 1 => log[i].reg # "cr3"
            /\ pc # "panicked"
            /\ (pc = "done" => pwrcfg.vos = pwr.target_vos))
    /\ [][cfg.smps /\ pwr.supply_configuration = "Default" =>
            LowerOf(rb') = LowerOf(rb)]_vars

C4_Witness ==
    /\ cfg.smps /\ pwr.supply_configuration = "Default" /\ pc = "done"
    /\ rb.ldoen = 0 /\ rb.sden = 0 /\ rb.sdlevel = 3
    /\ ~tier_selected

\* C5: every Scale0 VOS write and every overdrive-enable write of a freeze is
\* preceded by the Scale1 VOS write and by an observation of VOSRDY set after
\* that write.
C5_TwoHop ==
    \A i \in DOMAIN log :
        (\/ log[i] = Ev("modify", "pwrcr", 1)
         \/ (pwr.target_vos = "Scale0" /\ log[i] = Ev("write", "d3cr", 0))) =>
            \E j \in DOMAIN log : \E k \in DOMAIN log :
                /\ j < k /\ k < i
                /\ log[j] = Ev("write", "d3cr", 3)
                /\ log[k] = Ev("poll", "vosrdy", 1)

C5_Witness ==
    /\ pwr.target_vos = "Scale0"
    /\ cfg.family = "rm0468"
    /\ LogHas(Ev("write", "d3cr", 0))
    /\ pc = "done"

\* C6: on a returned PowerConfiguration the first backup() yields the handle
\* and every later one None, and vos() keeps returning the tier freeze
\* reached, whatever the order of the calls.
C6_BackupTakenOnce ==
    pc = "done" =>
        /\ (calls = 0 => pwrcfg.backup = "Some" /\ ret.backup = "none")
        /\ (calls = 1 => pwrcfg.backup = "None" /\ ret.backup = "Some")
        /\ (calls >= 2 => pwrcfg.backup = "None" /\ ret.backup = "None")
        /\ pwrcfg.vos = vos
        /\ ret.vos \in {"none", vos}

C6_Witness ==
    pc = "done" /\ calls = 2 /\ ret.backup = "None" /\ ret.vos = "Scale2"

\* C7: the builder starts at Scale1 / Default / no backup regulator, and a
\* freeze on which no tier was selected returns vos() = Scale1.
C7_DefaultsToScale1 ==
    /\ pwr.target_vos = "Scale1"
    /\ pwr.supply_configuration = "Default"
    /\ pwr.backup_regulator = FALSE
    /\ [](~tier_selected =>
            /\ pwr.target_vos = "Scale1"
            /\ (pc = "done" => pwrcfg.vos = "Scale1"))

C7_Witness ==
    /\ pc = "done" /\ ~tier_selected
    /\ pwr.supply_configuration = "DirectSMPS"
    /\ pwrcfg.vos = "Scale1"

\* The condition the loop at the current position waits for, read from the
\* registers.
C8_PolledFlagSet ==
    \/ pc \in {"poll_actvosrdy", "poll_actvosrdy2"} /\ rb.actvosrdy = 1
    \/ pc \in {"vst_poll", "od_poll"} /\ rb.vosrdy = 1
    \/ pc = "poll_actvos_eq" /\ rb.actvos = rb.vos
    \/ pc = "poll_dbp" /\ rb.dbp = 1
    \/ pc = "poll_brrdy" /\ rb.brrdy = 1

\* C8: a poll iteration that runs while the polled condition is set leaves
\* the loop: with the condition set the thread never spins once more.
C8_PollExitsWhenSet ==
    [][C8_PolledFlagSet => (spins' = spins \/ pc' # pc)]_vars

C8_Witness ==
    pc = "poll_actvos_eq" /\ spins = 1 /\ rb.actvos = rb.vos

\* C9: without the converter, a freeze to Scale1, Scale2 or Scale3 with no
\* backup regulator performs exactly: the CR3 modify writing SCUEN and LDOEN
\* set and BYPASS clear, the ACTVOSRDY poll, one VOS write with the target's
\* encoding, the VOSRDY poll, the DBP write and poll, and the handle's
\* construction; BREN is not written and vos() is the target.
C9_NoSmpsSequence ==
    (~cfg.smps /\ pc = "done" /\ pwr.target_vos # "Scale0"
        /\ ~pwr.backup_regulator) =>
        LET enc == IF cfg.family = "rm0455"
                   THEN (CASE pwr.target_vos = "Scale1" -> 2
                           [] pwr.target_vos = "Scale2" -> 1
                           [] OTHER -> 0)
                   ELSE (CASE pwr.target_vos = "Scale1" -> 3
                           [] pwr.target_vos = "Scale2" -> 2
                           [] OTHER -> 1)
        IN /\ log = << Ev("modify", "cr3", 6),
                       Ev("poll", "actvosrdy", 1),
                       Ev("write", "d3cr", enc),
                       Ev("poll", "vosrdy", 1),
                       Ev("modify", "cr1", 1),
                       Ev("poll", "dbp", 1),
                       Ev("new_singleton", "backup", 0) >>
           /\ rb.bren = 0
           /\ pwrcfg.vos = pwr.target_vos

C9_Witness ==
    /\ cfg.family = "rm0433" /\ pc = "done" /\ pwr.target_vos = "Scale1"
    /\ ~pwr.backup_regulator /\ rb.scuen = 1 /\ rb.ldoen = 1 /\ rb.bypass = 0

\* C10: for each non-default selection, the verification passes exactly when
\* CR3 reads as the bits freeze writes for that selection.
C10_VerifyMatchesWrite ==
    (cfg.smps /\ pc = "verify" /\ pwr.supply_configuration # "Default") =>
        (VerifyPasses(pwr.supply_configuration, rb) <=> ReflectsWrite)


\* The accesses of one freeze, in program order, for the running build and
\* builder: operation and register of each.
C11_Steps ==
    (IF cfg.smps /\ pwr.supply_configuration # "Default"
     THEN << <<"modify", "cr3">>, <<"read", "cr3">> >>
     ELSE << <<"modify", "cr3">> >>)
    \o << <<"poll", "actvosrdy">>, <<"write", "d3cr">>, <<"poll", "vosrdy">> >>
    \o (IF pwr.target_vos = "Scale0" /\ cfg.family \in {"rm0433", "rm0399"}
        THEN << <<"modify", "apb4enr">>, <<"modify", "pwrcr">>,
                <<"poll", "vosrdy">> >>
        ELSE IF pwr.target_vos = "Scale0" /\ cfg.family = "rm0468"
        THEN << <<"write", "d3cr">>, <<"poll", "vosrdy">>,
                <<"poll", "actvos">>, <<"poll", "actvosrdy">> >>
        ELSE << >>)
    \o << <<"modify", "cr1">>, <<"poll", "dbp">> >>
    \o (IF pwr.backup_regulator
        THEN << <<"modify", "cr2">>, <<"poll", "brrdy">> >>
        ELSE << >>)
    \o << <<"new_singleton", "backup">> >>

C11_InPoll ==
    pc \in {"poll_actvosrdy", "vst_poll", "od_poll", "poll_actvos_eq",
            "poll_actvosrdy2", "poll_dbp", "poll_brrdy"}

\* C11: the accesses of freeze are a prefix of the fixed step order, complete
\* when freeze returns; and while the flag of the current poll is clear the
\* thread stays in that poll, makes no further access and returns nothing.
C11_FixedOrder ==
    /\ [](/\ Len(log) <= Len(C11_Steps)
          /\ \A i \in DOMAIN log : <<log[i].op, log[i].reg>> = C11_Steps[i]
          /\ (pc = "done" => Len(log) = Len(C11_Steps)))
    /\ [][(C11_InPoll /\ ~C8_PolledFlagSet) =>
            (pc' = pc /\ log' = log /\ pwrcfg' = pwrcfg)]_vars

C11_Witness ==
    /\ pc = "poll_brrdy" /\ rb.brrdy = 0 /\ spins = 1
    /\ pwr.target_vos = "Scale0" /\ cfg.family = "rm0468"


\* Number of CR3 accesses at the head of the log once verification is over.
Cr3Accesses ==
    IF cfg.smps /\ pwr.supply_configuration # "Default" THEN 2 ELSE 1

C12_Overdrive ==
    << Ev("poll", "actvosrdy", 1), Ev("write", "d3cr", 3),
       Ev("poll", "vosrdy", 1), Ev("modify", "apb4enr", 1),
       Ev("modify", "pwrcr", 1), Ev("poll", "vosrdy", 1) >>

\* C12: on rm0433 / rm0399 with the revision gate a Scale0 freeze does, after
\* the CR3 accesses: ACTVOSRDY, the Scale1 VOS write, VOSRDY, the SYSCFG
\* clock enable, the overdrive enable, VOSRDY again, and reports Scale0 only
\* then; D3CR.VOS is written with the Scale1 encoding only; with a direct-SMPS
\* supply the CR3 write carries SDEN set and LDOEN clear and the readback that
\* passed verification carries the same.
C12_OverdriveSequence ==
    (cfg.family \in {"rm0433", "rm0399"} /\ cfg.revision_v
        /\ pwr.target_vos = "Scale0" /\ Started) =>
        LET n == Len(log) - Cr3Accesses IN
        /\ \A i \in 1 .. Len(C12_Overdrive) :
              Cr3Accesses + i <= Len(log) =>
                  log[Cr3Accesses + i] = C12_Overdrive[i]
        /\ \A i \in DOMAIN log :
              (log[i].op = "write" /\ log[i].reg = "d3cr") => log[i].val = 3
        /\ (sys.syscfgen = 1 => n >= 4)
        /\ (sys.oden = 1 => n >= 5)
        /\ (vos = "Scale0" \/ pwrcfg.vos = "Scale0" => n >= 6)
        /\ (pc = "done" => pwrcfg.vos = "Scale0")
        /\ panic # "unimplemented"
        /\ (cfg.smps /\ pwr.supply_configuration = "DirectSMPS"
               /\ pc \notin {"verify", "panicked"} =>
               /\ log[1].op = "modify" /\ log[1].reg = "cr3"
               /\ (log[1].val \div 2) % 2 = 0 /\ (log[1].val \div 4) % 2 = 1
               /\ log[2].op = "read" /\ log[2].reg = "cr3"
               /\ (log[2].val \div 2) % 2 = 0 /\ (log[2].val \div 4) % 2 = 1)

C12_Witness ==
    /\ cfg.family = "rm0399" /\ cfg.smps /\ cfg.revision_v
    /\ pwr.supply_configuration = "DirectSMPS"
    /\ pwr.target_vos = "Scale0"
    /\ pc = "done" /\ pwrcfg.vos = "Scale0"


C13_SecondTransition ==
    << Ev("poll", "actvosrdy", 1), Ev("write", "d3cr", 3),
       Ev("poll", "vosrdy", 1), Ev("write", "d3cr", 0),
       Ev("poll", "vosrdy", 1), Ev("poll", "actvos", 1),
       Ev("poll", "actvosrdy", 1) >>

\* C13: on rm0468 with the revision gate a Scale0 freeze does, after the CR3
\* accesses: ACTVOSRDY, the Scale1 VOS write, VOSRDY, the Scale0 VOS write,
\* VOSRDY, the wait for ACTVOS = VOS, ACTVOSRDY; DBP is written and Scale0 is
\* returned only after all of them, with the registers in that state.
C13_SecondTransitionSequence ==
    (cfg.family = "rm0468" /\ cfg.revision_v /\ pwr.target_vos = "Scale0"
        /\ Started) =>
        LET n == Len(log) - Cr3Accesses IN
        /\ \A i \in 1 .. Len(C13_SecondTransition) :
              Cr3Accesses + i <= Len(log) =>
                  log[Cr3Accesses + i] = C13_SecondTransition[i]
        /\ (rb.dbp_w = 1 \/ pwrcfg.vos = "Scale0" =>
               /\ n >= 7
               /\ rb.vos = 0 /\ rb.vosrdy = 1
               /\ rb.actvos = rb.vos /\ rb.actvosrdy = 1)
        /\ (pc = "done" => pwrcfg.vos = "Scale0")
        /\ sys.oden = 0

C13_Witness ==
    /\ cfg.family = "rm0468" /\ pwr.target_vos = "Scale0"
    /\ pc = "done" /\ pwrcfg.vos = "Scale0" /\ pwr.backup_regulator


VosWrites ==
    Cardinality({i \in DOMAIN log : log[i].op = "write" /\ log[i].reg = "d3cr"})

OverdriveRan ==
    \/ sys.syscfgen = 1 \/ sys.oden = 1
    \/ \E i \in DOMAIN log : log[i].reg \in {"apb4enr", "pwrcr"}

SecondTransitionRan ==
    \/ VosWrites >= 2
    \/ \E i \in DOMAIN log : log[i].reg = "actvos"

\* C14: one freeze runs at most one of the overdrive sequence and the second
\* VOS transition, the one its variant has; with a target of Scale1, Scale2
\* or Scale3 it runs neither: ODEN stays clear, there is one VOS write, and
\* the result is not Scale0.
C14_OneScale0Protocol ==
    /\ ~(OverdriveRan /\ SecondTransitionRan)
    /\ (OverdriveRan => HasOverdrive(cfg))
    /\ (SecondTransitionRan => HasSecondTransition(cfg))
    /\ (pwr.target_vos # "Scale0" =>
           /\ ~OverdriveRan /\ ~SecondTransitionRan
           /\ VosWrites <= 1
           /\ (pc = "done" => VosWrites = 1)
           /\ pwrcfg = NoResult \/ pwrcfg.vos # "Scale0")

C14_Witness ==
    /\ pc = "done" /\ pwr.target_vos = "Scale2"
    /\ cfg.revision_v /\ cfg.family = "rm0399"
    /\ VosWrites = 1


Singletons == {i \in DOMAIN log : log[i].op = "new_singleton"}

\* C15: freeze returns only with DBP written and read back set; BREN is
\* written exactly when backup_regulator() was called, after the DBP loop has
\* ended, and then freeze returns only with BRRDY set; the backup handle is
\* built once, as the last step, with the builder's flag.
C15_BackupDomain ==
    /\ (pc = "done" =>
           /\ rb.dbp_w = 1 /\ rb.dbp = 1
           /\ (pwr.backup_regulator <=> rb.bren = 1)
           /\ (pwr.backup_regulator => rb.brrdy = 1)
           /\ Cardinality(Singletons) = 1)
    /\ (rb.bren = 1 => pwr.backup_regulator /\ rb.dbp = 1)
    /\ \A i \in DOMAIN log :
          /\ (log[i].reg = "cr2" =>
                 /\ log[i].op = "modify"
                 /\ pwr.backup_regulator
                 /\ i > 1 /\ log[i - 1] = Ev("poll", "dbp", 1))
          /\ (log[i].reg = "brrdy" => log[i - 1] = Ev("modify", "cr2", 1))
          /\ (log[i].op = "new_singleton" =>
                 /\ i = Len(log)
                 /\ pc = "done"
                 /\ log[i].val = (IF pwr.backup_regulator THEN 1 ELSE 0)
                 /\ log[i - 1] = (IF pwr.backup_regulator
                                     THEN Ev("poll", "brrdy", 1)
                                     ELSE Ev("poll", "dbp", 1)))

C15_Witness ==
    /\ pc = "done" /\ pwr.backup_regulator
    /\ rb.bren = 1 /\ rb.brrdy = 1 /\ rb.dbp = 1
    /\ Singletons = {Len(log)}


\* C16: on rm0455, and on any family built without the revision gate, the
\* builder's target is never Scale0, freeze never returns Scale0 and never
\* runs a Scale0 step (no Scale0 transition, no overdrive, no second
\* transition).
C16_NoScale0WithoutSupport ==
    (cfg.family = "rm0455" \/ ~cfg.revision_v) =>
        /\ pwr.target_vos # "Scale0"
        /\ vos # "Scale0"
        /\ vst.new_scale # "Scale0"
        /\ pwrcfg.vos # "Scale0"
        /\ ret.vos # "Scale0"
        /\ ~OverdriveRan /\ ~SecondTransitionRan

C16_Witness ==
    /\ cfg.family = "rm0455" /\ ~cfg.revision_v
    /\ tier_selected /\ pc = "done" /\ pwrcfg.vos = "Scale1"


BuilderFields == {"supply_configuration", "target_vos", "backup_regulator"}

\* C17: a builder call touches no register and cannot fail, changes its own
\* field only, and never withdraws backup_regulator; freeze commits the
\* builder as the last calls left it: its CR3 write is the one of the
\* selected supply, and the tier it returns is the selected tier.
C17_BuilderIsPure ==
    [][ /\ (pwr' # pwr =>
               /\ pc = "builder" /\ pc' = "builder"
               /\ rb' = rb /\ sys' = sys /\ cr3_locked' = cr3_locked
               /\ log' = log /\ panic' = panic /\ pwrcfg' = pwrcfg
               /\ Cardinality({f \in BuilderFields : pwr'[f] # pwr[f]}) = 1
               /\ (pwr.backup_regulator => pwr'.backup_regulator))
        /\ (pc = "builder" /\ pc' # "builder" =>
               /\ pwr' = pwr
               /\ log' = << Ev("modify", "cr3",
                               LowerByte(IF cfg.smps
                                   THEN SupplyWrite(pwr.supply_configuration, rb)
                                   ELSE NoSmpsWrite(rb))) >>)
        /\ (pc' = "done" => pwrcfg'.vos = pwr.target_vos)
      ]_vars

C17_Witness ==
    /\ pc = "verify" /\ Len(log) = 1
    /\ pwr.supply_configuration = "Bypass"
    /\ pwr.target_vos = "Scale3"
    /\ pwr.backup_regulator
    /\ log[1].val = LowerByte(SupplyWrite("Bypass", rb))


\* C18: on rm0433 and rm0399 voltage_scaling_transition is never called
\* with Scale0, whatever the builder calls were, so its unimplemented!() arm
\* is never taken: a Scale0 target goes to the transition as Scale1.
C18_UnimplementedUnreachable ==
    cfg.family \in {"rm0433", "rm0399"} =>
        /\ vst.new_scale # "Scale0"
        /\ ~VosUnimplemented(cfg.family, vst.new_scale)
        /\ panic # "unimplemented"
        /\ (pwr.target_vos = "Scale0" /\ vst # NoCall =>
               vst.new_scale = "Scale1")
        /\ VosWrites <= 1

C18_Witness ==
    /\ cfg.family = "rm0433" /\ pwr.target_vos = "Scale0"
    /\ pc = "vst_poll" /\ vst.new_scale = "Scale1"
    /\ log[Len(log)] = Ev("write", "d3cr", 3)


VerifyPassed == pc \notin {"builder", "verify", "panicked"}

\* C19: once the supply verification has passed, and with hardware that
\* sets every polled condition, freeze returns a PowerConfiguration, on every
\* variant and for every supply, target tier and backup-regulator choice.
C19_FreezeReturns == VerifyPassed ~> (pc = "done" /\ pwrcfg # NoResult)

C19_Witness ==
    /\ pc = "done" /\ cfg.smps /\ cfg.family = "rm0399" /\ cfg.revision_v
    /\ pwr.supply_configuration = "DirectSMPS"
    /\ pwr.target_vos = "Scale0" /\ pwr.backup_regulator
    /\ pwrcfg.vos = "Scale0" /\ calls = 0

====
